---- MODULE Spec2Model ----
(***************************************************************************)
(* A model of the point-of-sale application of this repository:           *)
(*   src/another-up.py  billing, catalog, customers, history and ledger    *)
(*   src/app.py         the earlier variant (billing, catalog, history)    *)
(*                                                                         *)
(* The state is the content of the SQLite tables as the single connection  *)
(* sees it, plus the widgets the handlers read back (table snapshots, the  *)
(* cart, the combo box text, the invoice number label).  One action is one *)
(* Qt slot run to completion, nested signal deliveries included.           *)
(*                                                                         *)
(* Money: prices are whole currency units and percentages are whole        *)
(* numbers, and every amount the code computes with "/ 100" is kept in     *)
(* hundredths of a unit, so that the division is exact.                    *)
(***************************************************************************)
EXTENDS Integers, Sequences, FiniteSets, TLC

VARIABLES
    \* ---- which program runs ----
    program,          \* "another-up.py" or "app.py"
    \* ---- database tables of the billing side ----
    products,         \* set of [id, price, cost_price, stock, tax_rate, barcode]
    product_seq,      \* sqlite_sequence of products
    customers,        \* set of [id, name, phone, total_purchases]
    customer_seq,     \* sqlite_sequence of customers
    invoices,         \* set of invoices rows
    invoice_seq,      \* sqlite_sequence of invoices
    invoice_items,    \* set of invoice_items rows
    item_seq,         \* sqlite_sequence of invoice_items
    \* ---- widgets of the billing and history tabs ----
    product_table,    \* rows shown in the billing product table (a snapshot)
    cart,             \* self.cart: sequence of lines
    discount_percent, \* discount_percent.value()
    inv_lbl_num,      \* inv_lbl_num.text()
    labels,           \* lbl_subtotal, lbl_discount, lbl_tax, lbl_total
    history_table,    \* rows shown in the history table (a snapshot)
    \* ---- history variable ----
    sold,             \* invoice number -> what save_invoice stored for it
    \* ---- ledger tab (src/another-up.py) ----
    ledgers,          \* table ledgers: set of [id, name]
    ledger_entries,   \* table ledger_entries: set of rows
    entry_seq,        \* sqlite_sequence of ledger_entries (AUTOINCREMENT)
    ledger_combo,     \* ledger_combo.currentText()
    ledger_table,     \* ledger_table: the displayed rows, top to bottom
    \* ---- report and settings tabs, the process ----
    today,            \* datetime.date.today(): [y, m, d]
    report_table,     \* the Sales row of report_table
    settings,         \* table settings: set of [key, value], key PRIMARY KEY
    settings_tab,     \* store_name.text() and self.dark_mode
    running,          \* the program is running
    edits,            \* entries added plus cell edits the user has made so far
    gestures,         \* number of gestures the user has made on the billing side
    msg               \* the text of the last modal message box, "" if none

ledgerVars == <<ledgers, ledger_entries, entry_seq, ledger_combo, ledger_table>>
dbVars == <<products, product_seq, customers, customer_seq, invoices, invoice_seq,
            invoice_items, item_seq>>
uiVars == <<product_table, cart, discount_percent, inv_lbl_num, labels, history_table>>
officeVars == <<today, report_table, settings, settings_tab, running>>
billingVars == <<program, officeVars, dbVars, uiVars, sold, gestures>>
vars == <<billingVars, ledgerVars, edits, msg>>

(***************************************************************************)
(* Bounds of the model.                                                    *)
(***************************************************************************)
MaxEdits == 4              \* entries added plus cells edited in the ledger table

Dates == {1, 2}            \* entry dates (ISO text, ordered)
Today == 1                 \* datetime.date.today()
LedgerNames == {"A", "B"}
\* what the user may type into the editable combo box
ComboTexts == LedgerNames \cup {"", " "}
ParticularsTexts == {"", "rent"}

(***************************************************************************)
(* Values.  A Python float, an SQLite REAL column value and the text of a  *)
(* table cell are pairs <<tag, n>>.                                        *)
(***************************************************************************)
PyFloat(n) == <<"float", n>>
PyNaN == <<"nan", 0>>
Real(n) == <<"real", n>>
NULL == <<"null", 0>>
NumText(n) == <<"num", n>>       \* "5.0", "-5.0", ...
NanText == <<"nan", 0>>          \* "nan"
WordText == <<"word", 0>>        \* "abc": not a number
NoneText == <<"None", 0>>        \* str(None)
ValueError == <<"ValueError", 0>>

\* what the user may type into a Bill Amount or Paid cell
AmountTexts == {NumText(5), WordText, NanText}

\* str.strip() of the combo texts
Strip(t) == IF t = " " THEN "" ELSE t

\* float(text): the number, nan, or ValueError
ToFloat(t) == CASE t[1] = "num" -> PyFloat(t[2])
                [] t[1] = "nan" -> PyNaN
                [] OTHER -> ValueError

\* bill - paid on Python floats
FloatSub(a, b) == IF a = PyNaN \/ b = PyNaN THEN PyNaN ELSE PyFloat(a[2] - b[2])

\* binding a Python float to a REAL column: SQLite stores NaN as NULL
BindReal(f) == IF f = PyNaN THEN NULL ELSE Real(f[2])

\* str() of a Python float
StrFloat(f) == IF f = PyNaN THEN NanText ELSE NumText(f[2])

\* str() of a REAL column value read back (None for NULL)
StrReal(v) == IF v = NULL THEN NoneText ELSE NumText(v[2])

(***************************************************************************)
(* Ledger queries.                                                         *)
(***************************************************************************)
\* SELECT id FROM ledgers WHERE name=?   (0 when there is no such row)
LedgerId(lgs, name) ==
    IF \E l \in lgs : l.name = name
    THEN (CHOOSE l \in lgs : l.name = name).id
    ELSE 0

\* ORDER BY entry_date: rows with equal dates come in rowid order
Before(e, f) == e.entry_date < f.entry_date
                  \/ (e.entry_date = f.entry_date /\ e.id < f.id)

RECURSIVE OrderBy(_)
OrderBy(S) ==
    IF S = {} THEN <<>>
    ELSE LET first == CHOOSE e \in S : \A f \in S \ {e} : Before(e, f)
         IN <<first>> \o OrderBy(S \ {first})

\* (mutant of EntriesOf: the WHERE clause left out)
EntriesOfAnyLedger(entries, lid) == OrderBy(entries)

\* SELECT * FROM ledger_entries WHERE ledger_id=? ORDER BY entry_date
EntriesOf(entries, lid) == OrderBy({e \in entries : e.ledger_id = lid})

\* ... LIMIT 1 OFFSET row   (0 when the offset is past the end)
EntryAtOffset(entries, lid, row) ==
    LET rows == EntriesOf(entries, lid)
    IN IF row + 1 <= Len(rows) THEN rows[row + 1].id ELSE 0

\* one table row per query row; the Delete button keeps (rid, row)
TableRow(e, idx) ==
    [date |-> e.entry_date, particulars |-> e.particulars,
     bill |-> StrReal(e.bill_amount), paid |-> StrReal(e.paid),
     rem |-> StrReal(e.remaining), rid |-> e.id, row |-> idx]

\* load_ledger_entries: the table for combo text `text`
LoadLedgerEntries(lgs, entries, text) ==
    LET lid == LedgerId(lgs, Strip(text))
    IN IF Strip(text) = "" \/ lid = 0 THEN <<>>
       ELSE LET rows == EntriesOf(entries, lid)
            IN [i \in 1..Len(rows) |-> TableRow(rows[i], i - 1)]

(***************************************************************************)
(* Ledger handlers.                                                        *)
(***************************************************************************)
\* ORDER BY name of the ledger names
NameOrder == <<"A", "B">>
FirstName(S) == IF S = {} THEN ""
                ELSE NameOrder[CHOOSE i \in 1..Len(NameOrder) :
                         /\ NameOrder[i] \in S
                         /\ \A j \in 1..(i - 1) : NameOrder[j] \notin S]

\* name LIKE '%txt%' on the one-letter ledger names
Like(name, txt) == txt = "" \/ txt = name
SearchTexts == {"", "B", "Z"}

\* The user types into, or picks from, the combo box: currentTextChanged
\* runs load_ledger_entries.
SetComboText(t) ==
    /\ t # ledger_combo
    /\ ledger_combo' = t
    /\ ledger_table' = LoadLedgerEntries(ledgers, ledger_entries, t)
    /\ msg' = ""
    /\ UNCHANGED <<ledgers, ledger_entries, entry_seq, edits, billingVars>>

\* search_ledgers: clear() empties the text, the first addItem makes the
\* first match current; each text change reloads the table.  (The search box
\* text itself is not kept: a search overwrites all that a search sets.)
search_ledgers(txt) ==
    LET found == {l.name : l \in {x \in ledgers : Like(x.name, txt)}}
    IN /\ ledger_combo' = FirstName(found)
       /\ ledger_table' = LoadLedgerEntries(ledgers, ledger_entries, FirstName(found))
       /\ msg' = ""
       /\ UNCHANGED <<ledgers, ledger_entries, entry_seq, edits, billingVars>>

\* the INSERT of add_ledger and what follows it: populate_ledger_combo, then
\* setCurrentText(name), each reloading the table
InsertLedger(name) ==
    /\ ledgers' = ledgers \cup {[id |-> Cardinality(ledgers) + 1, name |-> name]}
    /\ ledger_combo' = name
    /\ ledger_table' = LoadLedgerEntries(ledgers', ledger_entries, name)

add_ledger ==
    LET name == Strip(ledger_combo)
    IN /\ UNCHANGED <<edits, billingVars>>
       /\ IF name = ""
          THEN msg' = "Name cannot be empty." /\ UNCHANGED ledgerVars
          ELSE IF LedgerId(ledgers, name) # 0       \* sqlite3.IntegrityError
          THEN msg' = "Ledger already exists." /\ UNCHANGED ledgerVars
          ELSE /\ InsertLedger(name)
               /\ msg' = ""
               /\ UNCHANGED <<ledger_entries, entry_seq>>

save_ledger ==
    LET name == Strip(ledger_combo)
    IN IF name = ""
       THEN msg' = "" /\ UNCHANGED <<ledgerVars, edits, billingVars>>
       ELSE /\ UNCHANGED <<edits, billingVars>>
            /\ IF LedgerId(ledgers, name) # 0
               THEN UNCHANGED ledgerVars
               ELSE InsertLedger(name) /\ UNCHANGED <<ledger_entries, entry_seq>>
            /\ msg' = "Ledger saved."

NewEntry(id, lid) ==
    [id |-> id, ledger_id |-> lid, entry_date |-> Today, particulars |-> "",
     bill_amount |-> Real(0), paid |-> Real(0), remaining |-> Real(0)]

add_ledger_entry ==
    LET name == Strip(ledger_combo)
        lid == LedgerId(ledgers, name)
    IN IF name = ""
       THEN msg' = "Select or create a ledger first."
            /\ UNCHANGED <<ledgerVars, edits, billingVars>>
       ELSE IF lid = 0
       THEN msg' = "Save ledger first." /\ UNCHANGED <<ledgerVars, edits, billingVars>>
       ELSE /\ edits < MaxEdits
            /\ edits' = edits + 1
            /\ UNCHANGED billingVars
            /\ entry_seq' = entry_seq + 1
            /\ ledger_entries' = ledger_entries \cup {NewEntry(entry_seq + 1, lid)}
            /\ ledger_table' = LoadLedgerEntries(ledgers, ledger_entries', ledger_combo)
            /\ msg' = ""
            /\ UNCHANGED <<ledgers, ledger_combo>>

\* The entry a row position stands for: the positional lookup of
\* ledger_cell_changed (0 when there is none).
EntryOfRow(entries, lid, row) ==
    IF lid = 0 THEN 0 ELSE EntryAtOffset(entries, lid, row)

\* One run of ledger_cell_changed on table row `row` showing `r`: the table
\* ledger_entries afterwards.
CellChangedUpdate(entries, lid, row, r) ==
    LET entry_id == EntryOfRow(entries, lid, row)
        bill == ToFloat(r.bill)
        paid == ToFloat(r.paid)
    IN IF entry_id = 0 \/ bill = ValueError \/ paid = ValueError
       THEN entries
       ELSE {IF e.id = entry_id
             THEN [e EXCEPT !.entry_date = r.date,
                            !.particulars = r.particulars,
                            !.bill_amount = BindReal(bill),
                            !.paid = BindReal(paid),
                            !.remaining = BindReal(FloatSub(bill, paid))]
             ELSE e : e \in entries}

EditableCols == {"date", "particulars", "bill", "paid"}
CellTexts(col) == CASE col = "date" -> Dates
                    [] col = "particulars" -> ParticularsTexts
                    [] OTHER -> AmountTexts

\* The user commits new text in cell (i-1, col): cellChanged runs
\* ledger_cell_changed; its setText on the Remaining cell, when the text
\* differs, delivers cellChanged(row, 4) and runs the handler once more.
ledger_cell_changed(i, col, text) ==
    /\ i \in 1..Len(ledger_table)
    /\ text # ledger_table[i][col]
    /\ edits < MaxEdits
    /\ edits' = edits + 1
    /\ LET r == [ledger_table[i] EXCEPT ![col] = text]
           lid == LedgerId(ledgers, Strip(ledger_combo))
           found == EntryOfRow(ledger_entries, lid, i - 1) # 0
           valid == ToFloat(r.bill) # ValueError /\ ToFloat(r.paid) # ValueError
           rem == StrFloat(FloatSub(ToFloat(r.bill), ToFloat(r.paid)))
           once == CellChangedUpdate(ledger_entries, lid, i - 1, r)
           shown == [r EXCEPT !.rem = rem]
       IN IF found /\ valid
          THEN /\ ledger_entries' =
                    IF rem # r.rem
                    THEN CellChangedUpdate(once, lid, i - 1, shown)
                    ELSE once
               /\ ledger_table' = [ledger_table EXCEPT ![i] = shown]
               /\ msg' = ""
          ELSE /\ ledger_entries' = ledger_entries
               /\ ledger_table' = [ledger_table EXCEPT ![i] = r]
               /\ msg' = IF found THEN "Enter valid numbers." ELSE ""
    /\ UNCHANGED <<ledgers, entry_seq, ledger_combo, billingVars>>

\* (mutant of DeleteEntry: the key compared with the wrong column)
DeleteEntryWrongColumn(entries, entry_id) == {e \in entries : e.ledger_id # entry_id}

\* DELETE FROM ledger_entries WHERE id=?
DeleteEntry(entries, entry_id) == {e \in entries : e.id # entry_id}

\* QTableWidget.removeRow(row): nothing when there is no such row
RemoveRow(tbl, row) ==
    IF row + 1 \in 1..Len(tbl)
    THEN [k \in 1..(Len(tbl) - 1) |-> IF k < row + 1 THEN tbl[k] ELSE tbl[k + 1]]
    ELSE tbl

\* The Delete button shown in table row i is pressed: its lambda calls
\* delete_ledger_entry(rid, row) with the values bound when the row was loaded.
delete_ledger_entry(i) ==
    /\ i \in 1..Len(ledger_table)
    /\ ledger_entries' = DeleteEntry(ledger_entries, ledger_table[i].rid)
    /\ ledger_table' = RemoveRow(ledger_table, ledger_table[i].row)
    /\ msg' = ""
    /\ UNCHANGED <<ledgers, entry_seq, ledger_combo, edits, billingVars>>

(***************************************************************************)
(* Billing: bounds and input sets.                                         *)
(***************************************************************************)
MaxGestures == 5           \* gestures the user makes on the billing side

Hundred == 100             \* the "/ 100" of percentages; amounts are in 1/100
NoCustomer == 0            \* customer_id NULL (cust_id = None)

Programs == {"another-up.py", "app.py"}
InvNums == {"1A2B", "3C4D"}     \* the tokens uuid4().hex[:8].upper() can give
Quantities == {1, 2}            \* answers of the quantity dialog
\* what the user may enter in the Add Product dialog
ProductInputs ==
    {[price |-> 100, cost_price |-> 60, stock |-> 2, tax_rate |-> 18, barcode |-> "b1"],
     [price |-> 30, cost_price |-> 20, stock |-> 1, tax_rate |-> 5, barcode |-> ""]}
\* the products on file when the program starts
Catalog ==
    {[id |-> 1, price |-> 100, cost_price |-> 60, stock |-> 2, tax_rate |-> 18, barcode |-> "b1"],
     [id |-> 2, price |-> 30, cost_price |-> 20, stock |-> 1, tax_rate |-> 5, barcode |-> ""]}
ProductSearchTexts == {"", "b1"}
DiscountPercents == {0, 10}
DiscountNames == {"SALE"}
CustNames == {"", "Ann"}
CustPhones == {"", "555"}
InvoiceDates == {Today}

(***************************************************************************)
(* Billing: totals (refresh_cart, save_invoice, record_and_generate_pdf).  *)
(* A price is in units; subtotal, discount, tax and total are in 1/100.    *)
(***************************************************************************)
\* sum(i['price'] * i['qty'] for i in self.cart)
RECURSIVE CartSubtotal(_)
CartSubtotal(c) ==
    IF c = <<>> THEN 0
    ELSE Hundred * Head(c).price * Head(c).qty + CartSubtotal(Tail(c))

\* (mutant of CartTax: the tax of the first line only)
CartTaxFirstLine(c) ==
    IF c = <<>> THEN 0 ELSE Head(c).price * Head(c).qty * Head(c).tax_rate

\* sum(i['price'] * i['qty'] * i['tax_rate'] / 100 for i in self.cart)
RECURSIVE CartTax(_)
CartTax(c) ==
    IF c = <<>> THEN 0
    ELSE Head(c).price * Head(c).qty * Head(c).tax_rate + CartTax(Tail(c))

\* subtotal * self.discount_percent.value() / 100
DiscountAmount(subtotal, percent) == (subtotal * percent) \div Hundred

\* total = subtotal - discount + tax
InvoiceTotal(subtotal, discount, tax) == subtotal - discount + tax

CartTotal(c, percent) ==
    InvoiceTotal(CartSubtotal(c), DiscountAmount(CartSubtotal(c), percent), CartTax(c))

\* refresh_cart: the four labels
RefreshCart(c, percent) ==
    [subtotal |-> CartSubtotal(c),
     discount |-> DiscountAmount(CartSubtotal(c), percent),
     tax |-> CartTax(c),
     total |-> CartTotal(c, percent)]

(***************************************************************************)
(* Billing: queries and row constructors.                                  *)
(***************************************************************************)
\* SELECT id FROM customers WHERE phone=?
CustomerByPhone(cs, phone) ==
    IF \E c \in cs : c.phone = phone
    THEN (CHOOSE c \in cs : c.phone = phone).id
    ELSE NoCustomer

\* (mutant of NewCustomer: the name stored as entered, without the default)
NewCustomerAsEntered(id, name, phone) ==
    [id |-> id, name |-> name, phone |-> phone, total_purchases |-> 0]

\* INSERT INTO customers(name, phone) VALUES(cust_name or "Walk-in", phone)
NewCustomer(id, name, phone) ==
    [id |-> id, name |-> IF name = "" THEN "Walk-in" ELSE name, phone |-> phone,
     total_purchases |-> 0]

\* SELECT * FROM invoices WHERE invoice_number=?
InvoiceByNumber(invs, num) == {r \in invs : r.invoice_number = num}

InvoiceRow(id, num, date, cust_id, c, dname, percent) ==
    [id |-> id, invoice_number |-> num, date |-> date, customer_id |-> cust_id,
     subtotal |-> CartSubtotal(c), discount_name |-> dname,
     discount_percent |-> percent, tax |-> CartTax(c),
     total |-> CartTotal(c, percent)]

\* (mutant of ItemRows: every row with the prices of the first line)
ItemRowsOfFirstLine(inv_id, c, last_id) ==
    {[id |-> last_id + k, invoice_id |-> inv_id, product_id |-> c[k].id,
      quantity |-> c[k].qty, price |-> c[1].price,
      cost_price |-> c[1].cost_price, tax_rate |-> c[1].tax_rate] : k \in 1..Len(c)}

\* one invoice_items row per cart line
ItemRows(inv_id, c, last_id) ==
    {[id |-> last_id + k, invoice_id |-> inv_id, product_id |-> c[k].id,
      quantity |-> c[k].qty, price |-> c[k].price,
      cost_price |-> c[k].cost_price, tax_rate |-> c[k].tax_rate] : k \in 1..Len(c)}

\* (mutant of DecrementStock: the UPDATE without its WHERE clause)
DecrementStockEverywhere(ps, id, qty) == {[p EXCEPT !.stock = @ - qty] : p \in ps}

\* UPDATE products SET stock=stock-? WHERE id=?
DecrementStock(ps, id, qty) ==
    {IF p.id = id THEN [p EXCEPT !.stock = @ - qty] ELSE p : p \in ps}

RECURSIVE StockAfter(_, _)
StockAfter(ps, c) ==
    IF c = <<>> THEN ps
    ELSE StockAfter(DecrementStock(ps, Head(c).id, Head(c).qty), Tail(c))

\* UPDATE customers SET total_purchases=total_purchases+? WHERE id=?  (app.py)
AddPurchase(cs, id, total) ==
    {IF c.id = id THEN [c EXCEPT !.total_purchases = @ + total] ELSE c : c \in cs}

\* (mutant of LoadHistory: JOIN customers in both programs)
LoadHistoryJoined(prog, invs, cs) ==
    {[invoice_number |-> r.invoice_number, id |-> r.id] :
        r \in {x \in invs : \E c \in cs : c.id = x.customer_id}}

\* load_history: the rows shown.  another-up.py LEFT JOINs customers, app.py
\* JOINs them.  A row is picked by selection, so the order is not kept.
LoadHistory(prog, invs, cs) ==
    {[invoice_number |-> r.invoice_number, id |-> r.id] :
        r \in {x \in invs : \/ prog = "another-up.py"
                             \/ \E c \in cs : c.id = x.customer_id}}

\* the snapshot of a products row in the billing product table
ShownProduct(p) ==
    [id |-> p.id, price |-> p.price, cost_price |-> p.cost_price,
     stock |-> p.stock, tax_rate |-> p.tax_rate]

\* the lines of an invoice as _make_pdf / record_and_generate_pdf read them:
\* invoice_items JOIN products (the name is a function of the product id:
\* no handler updates a products row other than its stock)
PdfItems(items, ps, inv_id) ==
    {[product_id |-> it.product_id, quantity |-> it.quantity, price |-> it.price,
      tax_rate |-> it.tax_rate] :
        it \in {x \in items : x.invoice_id = inv_id /\ \E p \in ps : p.id = x.product_id}}

\* what save_invoice stored for an invoice number (history variable)
SoldRecord(num, row, c) ==
    [invoice_number |-> num, subtotal |-> row.subtotal, tax |-> row.tax,
     discount_percent |-> row.discount_percent, total |-> row.total,
     items |-> {[product_id |-> c[k].id, quantity |-> c[k].qty, price |-> c[k].price,
                 tax_rate |-> c[k].tax_rate] : k \in 1..Len(c)}]

(***************************************************************************)
(* Billing handlers.                                                       *)
(***************************************************************************)
notBilling == <<program, officeVars, ledgerVars, edits>>

\* one more gesture of the user on the billing side
Gesture == gestures < MaxGestures /\ gestures' = gestures + 1

\* search_products_bill: name LIKE ? OR barcode LIKE ?  (the texts are matched
\* against the barcodes; product names are not kept)
search_products_bill(txt) ==
    /\ Gesture
    /\ product_table' = {ShownProduct(p) : p \in {x \in products : Like(x.barcode, txt)}}
    /\ msg' = ""
    /\ UNCHANGED <<notBilling, dbVars, cart, discount_percent, inv_lbl_num, labels,
                   history_table, sold>>

\* the cart after adding qty of the product of table row `row`
\* (mutant of CartAdd: the search for a line of the same product left out)
CartAddAppending(c, row, qty) ==
    Append(c, [id |-> row.id, price |-> row.price, cost_price |-> row.cost_price,
               tax_rate |-> row.tax_rate, qty |-> qty])

CartAdd(c, row, qty) ==
    IF \E k \in 1..Len(c) : c[k].id = row.id
    THEN [k \in 1..Len(c) |->
            IF c[k].id = row.id /\ \A j \in 1..(k - 1) : c[j].id # row.id
            THEN [c[k] EXCEPT !.qty = @ + qty] ELSE c[k]]
    ELSE Append(c, [id |-> row.id, price |-> row.price, cost_price |-> row.cost_price,
                    tax_rate |-> row.tax_rate, qty |-> qty])

\* add_to_cart on the selected row of the billing product table; qty and ok
\* are the answer of the quantity dialog
add_to_cart(row, qty, ok) ==
    /\ Gesture
    /\ row \in product_table
    /\ IF ~ok
       THEN msg' = "" /\ UNCHANGED <<cart, labels>>
       ELSE IF qty > row.stock
       THEN msg' = "Not enough stock." /\ UNCHANGED <<cart, labels>>
       ELSE /\ cart' = CartAdd(cart, row, qty)
            /\ labels' = RefreshCart(cart', discount_percent)
            /\ msg' = ""
    /\ UNCHANGED <<notBilling, dbVars, product_table, discount_percent, inv_lbl_num,
                   history_table, sold>>

\* del self.cart[row]; refresh_cart()
remove_from_cart(k) ==
    /\ Gesture
    /\ k \in 1..Len(cart)
    /\ cart' = [j \in 1..(Len(cart) - 1) |-> IF j < k THEN cart[j] ELSE cart[j + 1]]
    /\ labels' = RefreshCart(cart', discount_percent)
    /\ msg' = ""
    /\ UNCHANGED <<notBilling, dbVars, product_table, discount_percent, inv_lbl_num,
                   history_table, sold>>

\* (mutant of set_discount_percent: valueChanged not connected to refresh_cart)
set_discount_percent_unconnected(d) ==
    /\ Gesture
    /\ d # discount_percent
    /\ discount_percent' = d
    /\ msg' = ""
    /\ UNCHANGED <<notBilling, dbVars, product_table, cart, inv_lbl_num, labels,
                   history_table, sold>>

\* the user changes the discount spin box: valueChanged runs refresh_cart
set_discount_percent(d) ==
    /\ Gesture
    /\ d # discount_percent
    /\ discount_percent' = d
    /\ labels' = RefreshCart(cart, d)
    /\ msg' = ""
    /\ UNCHANGED <<notBilling, dbVars, product_table, cart, inv_lbl_num,
                   history_table, sold>>

\* (mutant of CartIsEmpty: the emptiness test left out)
CartNeverEmpty(c) == FALSE

\* if not self.cart
CartIsEmpty(c) == c = <<>>

\* save_invoice.  Inputs: the customer name and phone fields, the date
\* field, the discount name field, whether a file was chosen in the PDF
\* dialog, and the token uuid4 gives for the next invoice number.  The mode
\* (save, pdf, print) changes nothing that is kept here.
save_invoice(cust_name, cust_phone, date, dname, path, new_num) ==
    /\ Gesture
    /\ UNCHANGED <<notBilling, product_seq, product_table>>
    /\ IF CartIsEmpty(cart)
       THEN /\ msg' = "Cart is empty."
            /\ UNCHANGED <<products, customers, customer_seq, invoices, invoice_seq,
                           invoice_items, item_seq, cart, discount_percent,
                           inv_lbl_num, labels, history_table, sold>>
       ELSE LET known == CustomerByPhone(customers, cust_phone)
                create == cust_phone # "" /\ known = NoCustomer
                cust_id == IF cust_phone = "" THEN NoCustomer
                           ELSE IF create THEN customer_seq + 1 ELSE known
                looked == IF create
                          THEN customers \cup {NewCustomer(cust_id, cust_name, cust_phone)}
                          ELSE customers
                row == InvoiceRow(invoice_seq + 1, inv_lbl_num, date, cust_id, cart,
                                  dname, discount_percent)
                reset == program = "another-up.py" \/ path
            IN /\ customer_seq' = IF create THEN customer_seq + 1 ELSE customer_seq
               /\ IF InvoiceByNumber(invoices, inv_lbl_num) # {}
                  THEN \* UNIQUE(invoice_number): the INSERT raises IntegrityError,
                       \* which nothing catches; the customer row stays written
                       /\ customers' = looked
                       /\ msg' = "IntegrityError"
                       /\ UNCHANGED <<products, invoices, invoice_seq, invoice_items,
                                      item_seq, cart, discount_percent, inv_lbl_num,
                                      labels, history_table, sold>>
                  ELSE /\ invoice_seq' = invoice_seq + 1
                       /\ invoices' = invoices \cup {row}
                       /\ invoice_items' = invoice_items \cup ItemRows(row.id, cart, item_seq)
                       /\ item_seq' = item_seq + Len(cart)
                       /\ products' = StockAfter(products, cart)
                       /\ customers' = IF program = "app.py" /\ cust_id # NoCustomer
                                       THEN AddPurchase(looked, cust_id, row.total)
                                       ELSE looked
                       /\ sold' = {x \in sold : x.invoice_number # inv_lbl_num}
                                     \cup {SoldRecord(inv_lbl_num, row, cart)}
                       /\ msg' = IF ~path THEN ""
                                 ELSE IF program = "app.py" THEN "Invoice saved at"
                                 ELSE "Saved to"
                       /\ cart' = IF reset THEN <<>> ELSE cart
                       /\ labels' = IF reset THEN RefreshCart(<<>>, 0) ELSE labels
                       /\ inv_lbl_num' = IF reset THEN new_num ELSE inv_lbl_num
                       /\ discount_percent' = IF reset THEN 0 ELSE discount_percent
                       /\ history_table' = IF reset
                                           THEN LoadHistory(program, invoices', customers')
                                           ELSE history_table

\* record_and_generate_pdf, step 1: the customers table afterwards
RecordCustomers(cs, last_id, cust_name, cust_phone) ==
    IF (cust_name # "" \/ cust_phone # "") /\ CustomerByPhone(cs, cust_phone) = NoCustomer
    THEN cs \cup {NewCustomer(last_id + 1, cust_name, cust_phone)}
    ELSE cs

\* record_and_generate_pdf, step 1: cust_id
RecordCustId(cs, last_id, cust_name, cust_phone) ==
    IF cust_name = "" /\ cust_phone = "" THEN NoCustomer
    ELSE IF CustomerByPhone(cs, cust_phone) # NoCustomer
    THEN CustomerByPhone(cs, cust_phone)
    ELSE last_id + 1

\* record_and_generate_pdf, steps 2 and 3: the invoice row exists (the caller
\* found it by the same number) and is overwritten with totals recalculated
\* from the current cart and discount fields
RecordInvoices(invs, inv_id, cust_id, c, dname, percent) ==
    {IF r.id = inv_id
     THEN [r EXCEPT !.customer_id = cust_id,
                    !.subtotal = CartSubtotal(c),
                    !.discount_name = dname,
                    !.discount_percent = percent,
                    !.tax = CartTax(c),
                    !.total = CartTotal(c, percent)]
     ELSE r : r \in invs}

\* open_history_pdf on the selected history row; path: a file was chosen
open_history_pdf(row, path, dname) ==
    /\ Gesture
    /\ row \in history_table
    /\ UNCHANGED <<notBilling, products, product_seq, invoice_seq, invoice_items,
                   item_seq, uiVars, sold>>
    /\ IF program = "app.py"
       THEN /\ msg' = IF path THEN "History bill saved." ELSE ""
            /\ UNCHANGED <<customers, customer_seq, invoices>>
       ELSE LET found == InvoiceByNumber(invoices, row.invoice_number)
            IN IF found = {} \/ ~path
               THEN msg' = "" /\ UNCHANGED <<customers, customer_seq, invoices>>
               ELSE LET inv == CHOOSE r \in found : TRUE
                        cust == {c \in customers : c.id = inv.customer_id}
                        cust_name == IF cust # {} THEN (CHOOSE c \in cust : TRUE).name
                                     ELSE inv.invoice_number
                        cust_phone == IF cust # {} THEN (CHOOSE c \in cust : TRUE).phone
                                      ELSE ""
                    IN /\ customers' = RecordCustomers(customers, customer_seq,
                                                       cust_name, cust_phone)
                       /\ customer_seq' = IF customers' # customers
                                          THEN customer_seq + 1 ELSE customer_seq
                       /\ invoices' = RecordInvoices(invoices, inv.id,
                                         RecordCustId(customers, customer_seq,
                                                      cust_name, cust_phone),
                                         cart, dname, discount_percent)
                       /\ msg' = ""

\* (mutant of delete_invoice: the DELETE FROM invoice_items is left out)
delete_invoice_keeping_items(row, yes) ==
    /\ Gesture
    /\ program = "another-up.py"
    /\ row \in history_table
    /\ msg' = ""
    /\ UNCHANGED <<notBilling, products, product_seq, customers, customer_seq,
                   invoice_seq, item_seq, product_table, cart, discount_percent,
                   inv_lbl_num, labels, invoice_items>>
    /\ IF yes
       THEN /\ invoices' = {r \in invoices : r.id # row.id}
            /\ history_table' = LoadHistory(program, invoices', customers)
            /\ sold' = {x \in sold : \A r \in invoices :
                                        r.id = row.id => r.invoice_number # x.invoice_number}
       ELSE UNCHANGED <<invoices, history_table, sold>>

\* delete_invoice from the Delete button of a history row (another-up.py)
delete_invoice(row, yes) ==
    /\ Gesture
    /\ program = "another-up.py"
    /\ row \in history_table
    /\ msg' = ""
    /\ UNCHANGED <<notBilling, products, product_seq, customers, customer_seq,
                   invoice_seq, item_seq, product_table, cart, discount_percent,
                   inv_lbl_num, labels>>
    /\ IF yes
       THEN /\ invoice_items' = {it \in invoice_items : it.invoice_id # row.id}
            /\ invoices' = {r \in invoices : r.id # row.id}
            /\ history_table' = LoadHistory(program, invoices', customers)
            /\ sold' = {x \in sold : \A r \in invoices :
                                        r.id = row.id => r.invoice_number # x.invoice_number}
       ELSE UNCHANGED <<invoice_items, invoices, history_table, sold>>

\* (mutant of load_history: the refresh also starts a new invoice)
load_history_clearing_cart ==
    /\ Gesture
    /\ program = "another-up.py"
    /\ history_table' = LoadHistory(program, invoices, customers)
    /\ msg' = ""
    /\ cart' = <<>>
    /\ UNCHANGED <<notBilling, dbVars, product_table, discount_percent,
                   inv_lbl_num, labels, sold>>

\* load_history from the auto-refresh timer or the Refresh button
\* (another-up.py; app.py has neither)
load_history ==
    /\ Gesture
    /\ program = "another-up.py"
    /\ history_table' = LoadHistory(program, invoices, customers)
    /\ msg' = ""
    /\ UNCHANGED <<notBilling, dbVars, product_table, cart, discount_percent,
                   inv_lbl_num, labels, sold>>

\* add_product_dialog; accepted: the dialog was closed with Ok
add_product_dialog(accepted, inp) ==
    /\ Gesture
    /\ UNCHANGED <<notBilling, customers, customer_seq, invoices, invoice_seq,
                   invoice_items, item_seq, uiVars, sold>>
    /\ IF ~accepted
       THEN msg' = "" /\ UNCHANGED <<products, product_seq>>
       ELSE IF \E p \in products : p.barcode = inp.barcode
       THEN \* UNIQUE(barcode): IntegrityError, which nothing catches
            msg' = "IntegrityError" /\ UNCHANGED <<products, product_seq>>
       ELSE /\ product_seq' = product_seq + 1
            /\ products' = products \cup
                  {[id |-> product_seq + 1, price |-> inp.price,
                    cost_price |-> inp.cost_price, stock |-> inp.stock,
                    tax_rate |-> inp.tax_rate, barcode |-> inp.barcode]}
            /\ msg' = ""

\* (mutant of delete_product: the answer to the question is not looked at)
delete_product_unasked(p, yes) ==
    /\ Gesture
    /\ p \in products
    /\ products' = {x \in products : x.id # p.id}
    /\ msg' = ""
    /\ UNCHANGED <<notBilling, product_seq, customers, customer_seq, invoices,
                   invoice_seq, invoice_items, item_seq, uiVars, sold>>

\* delete_product on the selected row of the products tab, which shows the
\* ids of the products table (load_products follows every insert and delete)
delete_product(p, yes) ==
    /\ Gesture
    /\ p \in products
    /\ products' = IF yes THEN {x \in products : x.id # p.id} ELSE products
    /\ msg' = ""
    /\ UNCHANGED <<notBilling, product_seq, customers, customer_seq, invoices,
                   invoice_seq, invoice_items, item_seq, uiVars, sold>>

\* add_customer_dialog
add_customer_dialog(accepted, name, phone) ==
    /\ Gesture
    /\ UNCHANGED <<notBilling, products, product_seq, invoices, invoice_seq,
                   invoice_items, item_seq, uiVars, sold>>
    /\ IF ~accepted
       THEN msg' = "" /\ UNCHANGED <<customers, customer_seq>>
       ELSE IF CustomerByPhone(customers, phone) # NoCustomer
       THEN \* UNIQUE(phone): IntegrityError, which nothing catches
            msg' = "IntegrityError" /\ UNCHANGED <<customers, customer_seq>>
       ELSE /\ customer_seq' = customer_seq + 1
            /\ customers' = customers \cup
                  {[id |-> customer_seq + 1, name |-> name, phone |-> phone,
                    total_purchases |-> 0]}
            /\ msg' = ""

(***************************************************************************)
(* Report tab (refresh_report).  A date is [y, m, d]; the database and     *)
(* the query hold its ISO text, a sequence of characters.                  *)
(***************************************************************************)
MaxReportRows == 2         \* invoices on file when the report is refreshed

Digit(n) == <<"0", "1", "2", "3", "4", "5", "6", "7", "8", "9">>[n + 1]

\* date.isoformat(): YYYY-MM-DD
IsoFormat(d) ==
    <<Digit(d.y \div 1000), Digit((d.y \div 100) % 10), Digit((d.y \div 10) % 10),
      Digit(d.y % 10), "-", Digit(d.m \div 10), Digit(d.m % 10), "-",
      Digit(d.d \div 10), Digit(d.d % 10)>>

\* the days the clock shows, in order
ReportClock ==
    <<[y |-> 2025, m |-> 1, d |-> 15], [y |-> 2025, m |-> 1, d |-> 16],
      [y |-> 2025, m |-> 2, d |-> 15]>>
\* the dates the date field of an invoice may hold
ReportDays == {ReportClock[k] : k \in 1..Len(ReportClock)} \cup {[y |-> 2024, m |-> 1, d |-> 15]}
ReportTotals == {11800, 3150}

\* the invoices tables the report is refreshed on
ReportTables ==
    UNION {{{[id |-> i, invoice_number |-> Digit(i), date |-> IsoFormat(f[i][1]),
              customer_id |-> NoCustomer, subtotal |-> f[i][2], discount_name |-> "",
              discount_percent |-> 0, tax |-> 0, total |-> f[i][2]] : i \in 1..n} :
             f \in [1..n -> ReportDays \X ReportTotals]} : n \in 0..MaxReportRows}

\* (mutant of ThisMonth: a prefix one character short)
ThisMonthShort(iso) == SubSeq(iso, 1, 6)

\* this_month = today[:7]
ThisMonth(iso) == SubSeq(iso, 1, 7)

\* date LIKE this_month + "%"
LikePrefix(text, prefix) ==
    Len(text) >= Len(prefix) /\ SubSeq(text, 1, Len(prefix)) = prefix

RECURSIVE SumOfTotal(_)
SumOfTotal(rows) ==
    IF rows = {} THEN 0
    ELSE LET r == CHOOSE r \in rows : TRUE
         IN r.total + SumOfTotal(rows \ {r})

\* SELECT SUM(total): NULL over no rows
SqlSum(rows) == IF rows = {} THEN NULL ELSE Real(SumOfTotal(rows))

\* fetchone()[0] or 0
OrZero(v) == IF v = NULL \/ v[2] = 0 THEN 0 ELSE v[2]

\* the Sales row refresh_report computes
RefreshReport(invs, day) ==
    LET iso == IsoFormat(day)
    IN [today_sales |-> OrZero(SqlSum({r \in invs : r.date = iso})),
        month_sales |-> OrZero(SqlSum({r \in invs : LikePrefix(r.date, ThisMonth(iso))}))]

\* refresh_report from the Refresh button of the report tab
refresh_report ==
    /\ report_table' = RefreshReport(invoices, today)
    /\ msg' = ""
    /\ UNCHANGED <<program, today, settings, settings_tab, running, dbVars, uiVars,
                   sold, gestures, ledgerVars, edits>>

\* midnight passes while the program runs
next_day ==
    /\ \E k \in 1..(Len(ReportClock) - 1) :
          today = ReportClock[k] /\ today' = ReportClock[k + 1]
    /\ msg' = ""
    /\ UNCHANGED <<program, report_table, settings, settings_tab, running, dbVars,
                   uiVars, sold, gestures, ledgerVars, edits>>

(***************************************************************************)
(* Settings and startup (schema script, get_setting, set_setting,          *)
(* BillingApp.__init__, save_settings).  Of the five keys two are kept:    *)
(* a text and the dark-mode flag.                                          *)
(***************************************************************************)
SettingTexts == {"Lilly's Closet", "Shop"}
\* INSERT OR IGNORE INTO settings(key,value) VALUES ...
Defaults ==
    {[key |-> "store_name", value |-> "Lilly's Closet"],
     [key |-> "dark_mode", value |-> "0"]}

\* the settings tables a database may hold when the program starts
StoredSettings ==
    {names \cup modes :
        names \in {{}} \cup {{[key |-> "store_name", value |-> t]} : t \in SettingTexts},
        modes \in {{}} \cup {{[key |-> "dark_mode", value |-> t]} : t \in {"0", "1"}}}

\* (mutant of SeedDefaults: INSERT OR REPLACE)
SeedDefaultsReplacing(st) ==
    {r \in st : \A d \in Defaults : d.key # r.key} \cup Defaults

\* INSERT OR IGNORE: a default is inserted only if its key is absent
SeedDefaults(st) == st \cup {d \in Defaults : \A r \in st : r.key # d.key}

\* get_setting(k, default)
get_setting(st, k, default) ==
    IF \E r \in st : r.key = k THEN (CHOOSE r \in st : r.key = k).value ELSE default

\* set_setting(k, v): REPLACE INTO settings(key,value)
set_setting(st, k, v) == {r \in st : r.key # k} \cup {[key |-> k, value |-> v]}

\* str(int(self.dark_mode))
StrInt(b) == IF b THEN "1" ELSE "0"
\* bool(int(get_setting('dark_mode')))
BoolInt(t) == t # "0"

\* the program starts: the schema script (CREATE TABLE IF NOT EXISTS leaves
\* every table as it is, the defaults are seeded, the products table the
\* script creates has cost_price, so nothing is migrated), then
\* BillingApp.__init__.  num: the token of the first invoice number;
\* os_dark: what detect_system_theme returns.
startup(num, os_dark) ==
    /\ ~running
    /\ Gesture
    /\ running' = TRUE
    /\ settings' = SeedDefaults(settings)
    /\ settings_tab' =
          [store_name |-> get_setting(settings', "store_name", ""),
           dark_mode |-> IF program = "another-up.py"
                         THEN (IF get_setting(settings', "dark_mode_override", "0") = "0"
                               THEN os_dark
                               ELSE BoolInt(get_setting(settings', "dark_mode", "")))
                         ELSE BoolInt(get_setting(settings', "dark_mode", ""))]
    /\ product_table' = {}
    /\ cart' = <<>>
    /\ discount_percent' = 0
    /\ inv_lbl_num' = num
    /\ labels' = RefreshCart(<<>>, 0)
    /\ history_table' = LoadHistory(program, invoices, customers)
    /\ report_table' = RefreshReport(invoices, today)
    /\ ledger_combo' = ""
    /\ ledger_table' = <<>>
    /\ msg' = ""
    /\ UNCHANGED <<program, today, dbVars, sold, ledgers, ledger_entries, entry_seq,
                   edits>>

\* the window is closed
quit ==
    /\ running
    /\ Gesture
    /\ running' = FALSE
    /\ msg' = ""
    /\ UNCHANGED <<program, today, report_table, settings, settings_tab, dbVars,
                   uiVars, sold, ledgerVars, edits>>

\* the user types into the Store Name field
type_store_name(t) ==
    /\ running
    /\ Gesture
    /\ settings_tab' = [settings_tab EXCEPT !.store_name = t]
    /\ msg' = ""
    /\ UNCHANGED <<program, today, report_table, settings, running, dbVars, uiVars,
                   sold, ledgerVars, edits>>

toggle_dark_mode(checked) ==
    /\ running
    /\ Gesture
    /\ settings_tab' = [settings_tab EXCEPT !.dark_mode = checked]
    /\ msg' = ""
    /\ UNCHANGED <<program, today, report_table, settings, running, dbVars, uiVars,
                   sold, ledgerVars, edits>>

save_settings ==
    /\ running
    /\ Gesture
    /\ settings' = set_setting(set_setting(settings, "store_name", settings_tab.store_name),
                               "dark_mode", StrInt(settings_tab.dark_mode))
    /\ msg' = ""
    /\ UNCHANGED <<program, today, report_table, settings_tab, running, dbVars, uiVars,
                   sold, ledgerVars, edits>>

(***************************************************************************)
(* Specifications.                                                         *)
(***************************************************************************)
\* the billing side after BillingApp.__init__ on a database that holds the
\* catalog and nothing else; the billing product table starts empty
BillingStart(prog, num) ==
    /\ program = prog
    /\ products = Catalog /\ product_seq = Cardinality(Catalog)
    /\ customers = {} /\ customer_seq = 0
    /\ invoices = {} /\ invoice_seq = 0
    /\ invoice_items = {} /\ item_seq = 0
    /\ product_table = {}
    /\ cart = <<>>
    /\ discount_percent = 0
    /\ inv_lbl_num = num
    /\ labels = RefreshCart(<<>>, 0)
    /\ history_table = {}
    /\ sold = {}

\* the ledger tab after init_ledger_tab on an empty database
LedgerStart ==
    /\ ledgers = {}
    /\ ledger_entries = {}
    /\ entry_seq = 0
    /\ ledger_combo = ""
    /\ ledger_table = <<>>
    /\ edits = 0
    /\ gestures = 0

\* report and settings tabs after a start on a database without invoices
OfficeStart ==
    /\ today = ReportClock[1]
    /\ report_table = RefreshReport({}, today)
    /\ settings = Defaults
    /\ settings_tab = [store_name |-> get_setting(Defaults, "store_name", ""),
                       dark_mode |-> FALSE]
    /\ running = TRUE

InitBilling ==
    /\ \E prog \in Programs : BillingStart(prog, "1A2B")
    /\ LedgerStart
    /\ OfficeStart
    /\ msg = ""

NextBilling ==
    \/ \E txt \in ProductSearchTexts : search_products_bill(txt)
    \/ \E row \in product_table, qty \in Quantities, ok \in BOOLEAN : add_to_cart(row, qty, ok)
    \/ \E k \in 1..Len(cart) : remove_from_cart(k)
    \/ \E d \in DiscountPercents : set_discount_percent(d)
    \/ \E cust_name \in CustNames, cust_phone \in CustPhones, date \in InvoiceDates,
          dname \in DiscountNames, path \in BOOLEAN, new_num \in InvNums :
          save_invoice(cust_name, cust_phone, date, dname, path, new_num)
    \/ \E row \in history_table, path \in BOOLEAN, dname \in DiscountNames :
          open_history_pdf(row, path, dname)
    \/ \E row \in history_table, yes \in BOOLEAN : delete_invoice(row, yes)
    \/ load_history
    \/ \E accepted \in BOOLEAN, inp \in ProductInputs : add_product_dialog(accepted, inp)
    \/ \E p \in products, yes \in BOOLEAN : delete_product(p, yes)
    \/ \E accepted \in BOOLEAN, name \in CustNames, phone \in CustPhones :
          add_customer_dialog(accepted, name, phone)

SpecBilling == InitBilling /\ [][NextBilling]_vars

InitLedger ==
    /\ BillingStart("another-up.py", "1A2B")
    /\ LedgerStart
    /\ OfficeStart
    /\ msg = ""

NextLedger ==
    \/ \E t \in ComboTexts : SetComboText(t)
    \/ \E txt \in SearchTexts : search_ledgers(txt)
    \/ add_ledger
    \/ save_ledger
    \/ add_ledger_entry
    \/ \E i \in 1..Len(ledger_table), col \in EditableCols :
          \E text \in CellTexts(col) : ledger_cell_changed(i, col, text)
    \/ \E i \in 1..Len(ledger_table) : delete_ledger_entry(i)

SpecLedger == InitLedger /\ [][NextLedger]_vars

\* the report tab over the invoices tables of ReportTables, the report as
\* init_report_tab computed it at the start
InitReport ==
    /\ program \in Programs
    /\ products = Catalog /\ product_seq = Cardinality(Catalog)
    /\ customers = {} /\ customer_seq = 0
    /\ invoices \in ReportTables /\ invoice_seq = Cardinality(invoices)
    /\ invoice_items = {} /\ item_seq = 0
    /\ product_table = {}
    /\ cart = <<>>
    /\ discount_percent = 0
    /\ inv_lbl_num = "1A2B"
    /\ labels = RefreshCart(<<>>, 0)
    /\ history_table = LoadHistory(program, invoices, customers)
    /\ sold = {}
    /\ LedgerStart
    /\ msg = ""
    /\ today = ReportClock[1]
    /\ settings = Defaults
    /\ settings_tab = [store_name |-> get_setting(Defaults, "store_name", ""),
                       dark_mode |-> FALSE]
    /\ running = TRUE
    /\ report_table = RefreshReport(invoices, today)

NextReport ==
    \/ refresh_report
    \/ next_day

SpecReport == InitReport /\ [][NextReport]_vars

\* the program not yet started, on a database that holds the catalog and
\* any of the settings tables of StoredSettings
InitStartup ==
    /\ \E prog \in Programs : BillingStart(prog, "1A2B")
    /\ LedgerStart
    /\ msg = ""
    /\ today = ReportClock[1]
    /\ report_table = RefreshReport({}, today)
    /\ settings \in StoredSettings
    /\ settings_tab = [store_name |-> "", dark_mode |-> FALSE]
    /\ running = FALSE

NextStartup ==
    \/ \E num \in InvNums, os_dark \in BOOLEAN : startup(num, os_dark)
    \/ quit
    \/ \E t \in SettingTexts : type_store_name(t)
    \/ \E checked \in BOOLEAN : toggle_dark_mode(checked)
    \/ save_settings
    \/ \E name \in CustNames, phone \in CustPhones :
          running /\ add_customer_dialog(TRUE, name, phone)

SpecStartup == InitStartup /\ [][NextStartup]_vars

(***************************************************************************)
(* Claims about the ledger, checked under SpecLedger.                      *)
(***************************************************************************)
\* the ids shown in the table, top to bottom
ShownIds == [i \in 1..Len(ledger_table) |-> ledger_table[i].rid]
\* the ids of the date-sorted query for the selected ledger
QueryIds ==
    LET rows == LoadLedgerEntries(ledgers, ledger_entries, ledger_combo)
    IN [i \in 1..Len(rows) |-> rows[i].rid]

\* C7: when the user edits a cell of table row i, the only row of
\* ledger_entries that changes is the entry displayed in that table row.
C7_EditChangesOnlyDisplayedEntry ==
    [][\A i \in 1..Len(ledger_table), col \in EditableCols :
         \A text \in CellTexts(col) :
            ledger_cell_changed(i, col, text) =>
               \A e \in ledger_entries :
                  e \notin ledger_entries' => e.id = ledger_table[i].rid]_vars

\* C8: in every reachable state every ledger_entries row has
\* remaining = bill_amount - paid.
C8_RemainingIsBillMinusPaid ==
    \A e \in ledger_entries :
       /\ e.bill_amount # NULL /\ e.paid # NULL /\ e.remaining # NULL
       /\ e.remaining[2] = e.bill_amount[2] - e.paid[2]

\* C9: pressing the Delete button of the entry shown in table row i removes
\* that entry's row from ledger_entries and no other row, and changes no
\* field of any remaining row.
C9_DeleteRemovesExactlyThatEntry ==
    [][\A i \in 1..Len(ledger_table) :
         delete_ledger_entry(i) =>
            /\ \A e \in ledger_entries :
                  e \in ledger_entries' <=> e.id # ledger_table[i].rid
            /\ ledger_entries' \subseteq ledger_entries
            /\ ledgers' = ledgers]_vars

\* C9 witness: two entries were added and a bill amount was edited, then a
\* Delete button was pressed: the pressed entry is gone and the edited entry
\* is still stored.
C9_Witness ==
    /\ entry_seq = 2
    /\ edits >= 3
    /\ Cardinality(ledger_entries) = 1
    /\ \E e \in ledger_entries : e.bill_amount = Real(5)

\* C10: the table shows exactly the entries of the selected ledger, one row
\* per entry, in the order of the date-sorted query.
C10_TableMatchesQuery == ShownIds = QueryIds

(***************************************************************************)
(* Billing claims.                                                         *)
(***************************************************************************)
\* a step in which save_invoice wrote its invoice (only save_invoice inserts
\* into invoices; a save that raises IntegrityError inserts nothing)
InvoiceSaved == invoice_seq' = invoice_seq + 1

\* the invoices row inserted by the step
SavedRow == CHOOSE r \in invoices' : r.id = invoice_seq'

RECURSIVE SumPriceQty(_, _)
\* sum(price * qty) over the cart lines with index in I
SumPriceQty(c, I) ==
    IF I = {} THEN 0
    ELSE LET k == CHOOSE k \in I : TRUE
         IN c[k].price * c[k].qty + SumPriceQty(c, I \ {k})

RECURSIVE SumPriceQtyTax(_, _)
\* sum(price * qty * tax_rate) over the cart lines with index in I
SumPriceQtyTax(c, I) ==
    IF I = {} THEN 0
    ELSE LET k == CHOOSE k \in I : TRUE
         IN c[k].price * c[k].qty * c[k].tax_rate + SumPriceQtyTax(c, I \ {k})

\* C1: the invoices row that save_invoice inserts has subtotal = sum(price*qty)
\* over the cart, tax = sum(price*qty*tax_rate/100) over the cart (on the
\* amounts before discount) and total = subtotal - subtotal*discount_percent/100
\* + tax, for the cart and the discount percent at the time of the call, in
\* both programs.  Amounts are in hundredths.
C1_SavedTotals ==
    [][InvoiceSaved =>
         LET all == 1..Len(cart)
             subtotal == Hundred * SumPriceQty(cart, all)
             tax == SumPriceQtyTax(cart, all)
         IN /\ SavedRow.invoice_number = inv_lbl_num
            /\ SavedRow.subtotal = subtotal
            /\ SavedRow.tax = tax
            /\ SavedRow.discount_percent = discount_percent
            /\ Hundred * SavedRow.total
                  = Hundred * subtotal - subtotal * discount_percent + Hundred * tax]_vars

\* C1 witness: an invoice of two lines (100 x 1 at 18%, 30 x 1 at 5%) saved
\* with a discount of 10%: 130.00, tax 19.50, total 130 - 13 + 19.50
C1_Witness ==
    \E r \in invoices, x \in sold :
        /\ x.invoice_number = r.invoice_number
        /\ Cardinality(x.items) = 2
        /\ r.subtotal = 13000 /\ x.subtotal = 13000
        /\ r.tax = 1950
        /\ r.discount_percent = 10
        /\ r.total = 13650

RECURSIVE SumItems(_)
\* sum(price * quantity) over a set of invoice_items rows, in hundredths
SumItems(items) ==
    IF items = {} THEN 0
    ELSE LET it == CHOOSE it \in items : TRUE
         IN Hundred * it.price * it.quantity + SumItems(items \ {it})

\* C2: in another-up.py every invoices row has subtotal = sum(price *
\* quantity) over the invoice_items rows of that invoice, in every reachable
\* state.
C2_SubtotalMatchesItems ==
    program = "another-up.py" =>
        \A r \in invoices :
            r.subtotal = SumItems({it \in invoice_items : it.invoice_id = r.id})

\* C3: in another-up.py no step changes a column of an invoices row that
\* exists before and after the step (delete_invoice removes the row; nothing
\* else may touch it, the history PDF export included).
C3_InvoiceRowImmutable ==
    [][program = "another-up.py" =>
         \A r \in invoices : \A r2 \in invoices' : r2.id = r.id => r2 = r]_vars

\* C4: in another-up.py, exporting a saved invoice from the history tab
\* (open_history_pdf -> record_and_generate_pdf, a file chosen) yields the
\* subtotal, tax, discount percent and total and the set of line items that
\* save_invoice stored for that invoice number.
C4_HistoryExportReproducesSale ==
    [][\A row \in history_table, dname \in DiscountNames :
          (program = "another-up.py" /\ open_history_pdf(row, TRUE, dname)) =>
              \A x \in sold : \A r \in invoices' :
                  (x.invoice_number = row.invoice_number
                     /\ r.invoice_number = row.invoice_number) =>
                      /\ r.subtotal = x.subtotal
                      /\ r.tax = x.tax
                      /\ r.discount_percent = x.discount_percent
                      /\ r.total = x.total
                      /\ PdfItems(invoice_items', products', r.id) = x.items]_vars

RECURSIVE QtyInCart(_, _)
\* the quantity of product id in the cart (0 if it is not in the cart)
QtyInCart(c, id) ==
    IF c = <<>> THEN 0
    ELSE (IF Head(c).id = id THEN Head(c).qty ELSE 0) + QtyInCart(Tail(c), id)

\* C5: a save_invoice that writes its invoice leaves the same products, each
\* with its stock decreased by the quantity of its cart line, and products
\* that are not in the cart with their stock unchanged, in both programs.
C5_StockDecrementedByCart ==
    [][InvoiceSaved =>
         /\ cart # <<>>
         /\ {p.id : p \in products'} = {p.id : p \in products}
         /\ Cardinality(products') = Cardinality(products)
         /\ \A p \in products :
               [p EXCEPT !.stock = p.stock - QtyInCart(cart, p.id)] \in products']_vars

\* C5 witness: two products on file, one unit of the first sold, the second
\* never sold and still at its initial stock
C5_Witness ==
    /\ invoice_seq = 1
    /\ \E p, q \in products :
          /\ p.barcode = "b1" /\ p.stock = 1
          /\ q.barcode = "" /\ q.stock = 1
          /\ \E it \in invoice_items : it.product_id = p.id /\ it.quantity = 1
          /\ \A it \in invoice_items : it.product_id # q.id

\* C6: save_invoice with an empty cart writes nothing to the database, also
\* when a name and a phone number not on file are entered, shows the warning
\* "Cart is empty." and leaves cart, discount and invoice number unchanged,
\* in both programs.
C6_EmptyCartWritesNothing ==
    [][cart = <<>> =>
         \A cust_name \in CustNames, cust_phone \in CustPhones, date \in InvoiceDates,
            dname \in DiscountNames, path \in BOOLEAN, new_num \in InvNums :
            save_invoice(cust_name, cust_phone, date, dname, path, new_num) =>
                /\ UNCHANGED dbVars
                /\ UNCHANGED <<cart, discount_percent, inv_lbl_num>>
                /\ msg' = "Cart is empty."]_vars

\* C6 witness: the warning is up, with products on file, a discount set and
\* no customer on file
C6_Witness ==
    /\ msg = "Cart is empty."
    /\ cart = <<>>
    /\ products # {}
    /\ discount_percent # 0
    /\ customers = {}

\* the invoice_items rows of an invoice
ItemsOf(items, inv_id) == {it \in items : it.invoice_id = inv_id}

\* what an invoice_items row records of the sale
Line(it) ==
    [product_id |-> it.product_id, quantity |-> it.quantity, price |-> it.price,
     cost_price |-> it.cost_price, tax_rate |-> it.tax_rate]

\* C11: the invoice_items rows save_invoice writes are, line for line, the
\* cart at save time (product_id, quantity, price, cost_price, tax_rate); no
\* step changes the rows of an invoice that is still on file, and a row goes
\* only in a confirmed delete_invoice of its own invoice.
C11_ItemsAreImmutableRecord ==
    [][/\ InvoiceSaved =>
            /\ Cardinality(ItemsOf(invoice_items', SavedRow.id)) = Len(cart)
            /\ {Line(it) : it \in ItemsOf(invoice_items', SavedRow.id)}
                  = {[product_id |-> cart[k].id, quantity |-> cart[k].qty,
                      price |-> cart[k].price, cost_price |-> cart[k].cost_price,
                      tax_rate |-> cart[k].tax_rate] : k \in 1..Len(cart)}
       /\ \A r \in invoices :
            (\E r2 \in invoices' : r2.id = r.id) =>
                ItemsOf(invoice_items', r.id) = ItemsOf(invoice_items, r.id)
       /\ \A it \in invoice_items \ invoice_items' :
            \E row \in history_table :
                row.id = it.invoice_id /\ delete_invoice(row, TRUE)]_vars

\* C11 witness: an invoice of two lines is on file with both of its item
\* rows, and the product of one of them has since been deleted
C11_Witness ==
    \E r \in invoices :
        /\ Cardinality(ItemsOf(invoice_items, r.id)) = 2
        /\ \E it \in ItemsOf(invoice_items, r.id) :
              \A p \in products : p.id # it.product_id

\* the identity columns of the customers rows
Identities(cs) == {[id |-> c.id, name |-> c.name, phone |-> c.phone] : c \in cs}

Ids(rows) == {r.id : r \in rows}

\* C13: a step removes a products row, an invoices row or a ledger_entries
\* row only if it is a deletion the user confirmed with Yes (delete_product
\* and delete_invoice ask; a declined dialog changes nothing).
C13_DeletesAreConfirmed ==
    [][(\/ ~(Ids(products) \subseteq Ids(products'))
        \/ ~(Ids(invoices) \subseteq Ids(invoices'))
        \/ ~(Ids(ledger_entries) \subseteq Ids(ledger_entries'))) =>
          \/ \E p \in products : delete_product(p, TRUE)
          \/ \E row \in history_table : delete_invoice(row, TRUE)]_vars

\* the texts the programs show with QMessageBox.warning
Warnings ==
    {"Cart is empty.", "Not enough stock.", "Name cannot be empty.",
     "Ledger already exists.", "Select or create a ledger first.",
     "Save ledger first.", "Enter valid numbers."}

\* C14: adding a ledger whose name is on file, a product whose barcode is on
\* file or a customer whose phone is on file ends with a warning shown (not
\* with an exception nothing handles) and leaves the database unchanged.
C14_UniquenessConflictWarns ==
    [][/\ (LedgerId(ledgers, Strip(ledger_combo)) # 0 /\ add_ledger) =>
             msg' \in Warnings /\ UNCHANGED <<ledgers, ledger_entries, dbVars>>
       /\ \A inp \in ProductInputs :
             ((\E p \in products : p.barcode = inp.barcode)
                 /\ add_product_dialog(TRUE, inp)) =>
                    msg' \in Warnings /\ UNCHANGED <<ledgers, ledger_entries, dbVars>>
       /\ \A name \in CustNames, phone \in CustPhones :
             ((\E c \in customers : c.phone = phone)
                 /\ add_customer_dialog(TRUE, name, phone)) =>
                    msg' \in Warnings /\ UNCHANGED <<ledgers, ledger_entries, dbVars>>]_vars

\* a cell text that is not a number: float() rejects it or gives nan
NonNumeric(t) == ToFloat(t) = ValueError \/ ToFloat(t) = PyNaN

\* C15: the ledger validation failures write nothing: add_ledger with an
\* empty or blank name, add_ledger_entry with no ledger selected or with a
\* name that is no saved ledger, and ledger_cell_changed on a row whose Bill
\* Amount or Paid cell holds text that is not a number each leave ledgers and
\* ledger_entries as they were.
C15_LedgerValidationWritesNothing ==
    [][/\ (Strip(ledger_combo) = "" /\ add_ledger) =>
             UNCHANGED <<ledgers, ledger_entries>>
       /\ (LedgerId(ledgers, Strip(ledger_combo)) = 0 /\ add_ledger_entry) =>
             UNCHANGED <<ledgers, ledger_entries>>
       /\ \A i \in 1..Len(ledger_table), col \in EditableCols :
            \A text \in CellTexts(col) :
               LET r == [ledger_table[i] EXCEPT ![col] = text]
               IN ((NonNumeric(r.bill) \/ NonNumeric(r.paid))
                      /\ ledger_cell_changed(i, col, text)) =>
                         UNCHANGED <<ledgers, ledger_entries>>]_vars

\* the user leaves a dialog of add product, add customer, delete product or
\* delete invoice without confirming, and the database stays as it was
DeclinedDialogsWriteNothing ==
    /\ \A inp \in ProductInputs : add_product_dialog(FALSE, inp) => UNCHANGED dbVars
    /\ \A name \in CustNames, phone \in CustPhones :
          add_customer_dialog(FALSE, name, phone) => UNCHANGED dbVars
    /\ \A p \in products : delete_product(p, FALSE) => UNCHANGED dbVars
    /\ \A row \in history_table : delete_invoice(row, FALSE) => UNCHANGED dbVars

\* C16 (as stated): a dialog left without confirming leaves the database as
\* it was before the operation, the PDF file dialog of save_invoice included.
C16_CancelHasNoEffect ==
    [][/\ DeclinedDialogsWriteNothing
       /\ \A cust_name \in CustNames, cust_phone \in CustPhones,
             date \in InvoiceDates, dname \in DiscountNames, new_num \in InvNums :
             (cart # <<>>
                /\ save_invoice(cust_name, cust_phone, date, dname, FALSE, new_num)) =>
                   UNCHANGED dbVars]_vars

\* C16 (amended): a declined add or delete dialog leaves the database as it
\* was; cancelling the PDF file dialog of save_invoice does not undo the
\* save: when the invoice number is free, the invoice, its item rows and the
\* stock decrease written before the dialog stay.
C16_CancelledPdfKeepsInvoice ==
    [][/\ DeclinedDialogsWriteNothing
       /\ \A cust_name \in CustNames, cust_phone \in CustPhones,
             date \in InvoiceDates, dname \in DiscountNames, new_num \in InvNums :
             (cart # <<>>
                /\ InvoiceByNumber(invoices, inv_lbl_num) = {}
                /\ save_invoice(cust_name, cust_phone, date, dname, FALSE, new_num)) =>
                   /\ InvoiceSaved
                   /\ SavedRow.invoice_number = inv_lbl_num
                   /\ Cardinality(ItemsOf(invoice_items', SavedRow.id)) = Len(cart)
                   /\ \A q \in products :
                         [q EXCEPT !.stock = q.stock - QtyInCart(cart, q.id)]
                            \in products']_vars

\* C16 witness: app.py after a save whose PDF dialog was cancelled: the
\* invoice with the number still shown is on file, with the cart still full
C16_Witness ==
    /\ program = "app.py"
    /\ cart # <<>>
    /\ InvoiceByNumber(invoices, inv_lbl_num) # {}
    /\ msg = ""

\* C17: every product's stock is >= 0 in every reachable state (every product
\* is created with stock >= 0), whatever is searched, added to the cart,
\* removed from it and saved.
C17_StockNeverNegative == \A p \in products : p.stock >= 0

\* C18: after an accepted add_to_cart the cart line of the added product
\* holds at most the stock displayed for it in the billing product table,
\* and a rejected add leaves the cart unchanged.
C18_CartWithinDisplayedStock ==
    [][\A row \in product_table, qty \in Quantities :
          add_to_cart(row, qty, TRUE) =>
             /\ qty > row.stock => cart' = cart
             /\ \A k \in 1..Len(cart') :
                   cart'[k].id = row.id => cart'[k].qty <= row.stock]_vars

RECURSIVE SumTotal(_)
\* sum(total) over a set of invoices rows
SumTotal(rows) ==
    IF rows = {} THEN 0
    ELSE LET r == CHOOSE r \in rows : TRUE
         IN r.total + SumTotal(rows \ {r})

\* C19: in another-up.py each customer's total_purchases equals the sum of
\* total over the invoices rows that reference the customer.
C19_TotalPurchasesIsSumOfInvoices ==
    program = "another-up.py" =>
       \A c \in customers :
          c.total_purchases = SumTotal({r \in invoices : r.customer_id = c.id})

C24_SavedInvoiceStaysInHistory ==
    [][program = "another-up.py" =>
          /\ Ids(LoadHistory(program, invoices', customers')) = Ids(invoices')
          /\ InvoiceSaved => SavedRow.id \in Ids(history_table')
          /\ load_history => Ids(history_table') = Ids(invoices)
          /\ \/ Ids(invoices) \subseteq Ids(invoices')
             \/ \E row \in history_table : delete_invoice(row, TRUE)]_vars

\* C24 witness: another-up.py shows in its history an invoice saved without
\* a customer, next to one saved with a customer
C24_Witness ==
    /\ program = "another-up.py"
    /\ \E r \in invoices : r.customer_id = NoCustomer /\ r.id \in Ids(history_table)
    /\ \E r \in invoices : r.customer_id # NoCustomer /\ r.id \in Ids(history_table)

\* C25: in another-up.py a customers row is created only by an accepted
\* add-customer dialog or by save_invoice with a phone number not yet on
\* file; exporting the PDF of an invoice from the history tab creates none.
C25_CustomersOnlyFromDialogOrSave ==
    [][(program = "another-up.py" /\ ~(Ids(customers') \subseteq Ids(customers))) =>
          \/ \E name \in CustNames, phone \in CustPhones :
                add_customer_dialog(TRUE, name, phone)
          \/ \E cust_name \in CustNames, cust_phone \in CustPhones, date \in InvoiceDates,
                dname \in DiscountNames, path \in BOOLEAN, new_num \in InvNums :
                /\ cust_phone # ""
                /\ CustomerByPhone(customers, cust_phone) = NoCustomer
                /\ save_invoice(cust_name, cust_phone, date, dname, path, new_num)]_vars

\* C26: a save_invoice that fails because its invoice number is already in
\* invoices leaves no row of its own in the database: no new customers
\* row, no invoice_items row and no stock change.
C26_FailedSaveWritesNothing ==
    [][\A cust_name \in CustNames, cust_phone \in CustPhones, date \in InvoiceDates,
          dname \in DiscountNames, path \in BOOLEAN, new_num \in InvNums :
          (/\ cart # <<>>
           /\ InvoiceByNumber(invoices, inv_lbl_num) # {}
           /\ save_invoice(cust_name, cust_phone, date, dname, path, new_num)) =>
              UNCHANGED dbVars]_vars

\* C27: in app.py a save_invoice that has written its invoice also empties
\* the cart and replaces the invoice number by the newly generated one,
\* whether or not a PDF file is chosen.
C27_AppSaveStartsNewInvoice ==
    [][\A cust_name \in CustNames, cust_phone \in CustPhones, date \in InvoiceDates,
          dname \in DiscountNames, path \in BOOLEAN, new_num \in InvNums :
          (/\ program = "app.py"
           /\ save_invoice(cust_name, cust_phone, date, dname, path, new_num)
           /\ InvoiceSaved) =>
              cart' = <<>> /\ inv_lbl_num' = new_num]_vars

\* no two lines of the cart are of the same product
OneLinePerProduct(c) ==
    \A j, k \in 1..Len(c) : c[j].id = c[k].id => j = k

\* C28: after every step the cart holds at most one line per product id; an
\* accepted add of a product already in the cart adds the quantity to its
\* line and creates no line, and save_invoice writes at most one
\* invoice_items row per product for its invoice.
C28_OneCartLinePerProduct ==
    [][/\ OneLinePerProduct(cart')
       /\ \A row \in product_table, qty \in Quantities :
             (add_to_cart(row, qty, TRUE) /\ qty <= row.stock) =>
                /\ QtyInCart(cart', row.id) = QtyInCart(cart, row.id) + qty
                /\ Len(cart') = IF QtyInCart(cart, row.id) > 0
                                THEN Len(cart) ELSE Len(cart) + 1
       /\ InvoiceSaved =>
             \A a, b \in ItemsOf(invoice_items', SavedRow.id) :
                a.product_id = b.product_id => a = b]_vars

\* C28 witness: an invoice on file whose one item row holds the quantity of
\* two adds of the same product
C28_Witness ==
    \E it \in invoice_items :
       /\ it.quantity > 2
       /\ ItemsOf(invoice_items, it.invoice_id) = {it}

\* the four figures of the invoices row save_invoice would write now
WouldPersist ==
    LET row == InvoiceRow(invoice_seq + 1, inv_lbl_num, Today, NoCustomer, cart, "",
                          discount_percent)
    IN [subtotal |-> row.subtotal,
        discount |-> DiscountAmount(row.subtotal, row.discount_percent),
        tax |-> row.tax,
        total |-> row.total]

\* C29: after every step the displayed subtotal, discount, tax and grand
\* total are the figures save_invoice would compute for the current cart
\* and discount percent, and a save writes the figures that were displayed.
C29_DisplayMatchesCart ==
    [][/\ labels' = WouldPersist'
       /\ InvoiceSaved =>
             /\ SavedRow.subtotal = labels.subtotal
             /\ SavedRow.tax = labels.tax
             /\ SavedRow.total = labels.total
             /\ DiscountAmount(SavedRow.subtotal, SavedRow.discount_percent)
                   = labels.discount]_vars

\* C29 witness: an invoice was saved from a cart of two lines with a
\* discount on display
C29_Witness ==
    \E r \in invoices :
       /\ r.discount_percent > 0
       /\ Cardinality(ItemsOf(invoice_items, r.id)) = 2
       /\ r.total = r.subtotal - DiscountAmount(r.subtotal, r.discount_percent) + r.tax

(***************************************************************************)
(* Claims about the report tab, checked under SpecReport.                  *)
(***************************************************************************)
\* the date an invoices row holds
DateOf(r) == CHOOSE d \in ReportDays : IsoFormat(d) = r.date

\* C22: refresh_report shows as today's sales the sum of total over exactly
\* the invoices dated today, and as month sales the sum of total over
\* exactly the invoices dated in today's year and month, computed from the
\* invoices table as it is (0 when there are none).
C22_ReportSumsTodayAndMonth ==
    [][refresh_report =>
          /\ report_table'.today_sales =
                SumTotal({r \in invoices : DateOf(r) = today})
          /\ report_table'.month_sales =
                SumTotal({r \in invoices : DateOf(r).y = today.y /\ DateOf(r).m = today.m})]_vars

\* C22 witness: the report was refreshed after midnight, with an invoice of
\* today, one of another day of the month and so a month figure above
\* today's, while other invoices on file belong to neither
C22_Witness ==
    /\ today = ReportClock[2]
    /\ report_table = RefreshReport(invoices, today)
    /\ report_table # RefreshReport(invoices, ReportClock[1])
    /\ 0 < report_table.today_sales
    /\ report_table.today_sales < report_table.month_sales

(***************************************************************************)
(* Claims about startup and settings, checked under SpecStartup.           *)
(***************************************************************************)
\* the values the settings table holds for a key
ValuesOf(st, k) == {r.value : r \in {x \in st : x.key = k}}

\* C23: a start of the program on a database that holds data changes no row
\* of any table and no settings value, and inserts a default only for a key
\* that is absent; save_settings writes the values of the settings tab, so
\* they are what the settings table holds after a restart.
C23_StartupIsIdempotent ==
    [][/\ \A num \in InvNums, os_dark \in BOOLEAN :
             startup(num, os_dark) =>
                /\ UNCHANGED <<dbVars, ledgers, ledger_entries, entry_seq>>
                /\ settings \subseteq settings'
                /\ \A r \in settings' \ settings :
                      r \in Defaults /\ ValuesOf(settings, r.key) = {}
                /\ \A d \in Defaults : ValuesOf(settings', d.key) # {}
       /\ save_settings =>
             /\ ValuesOf(settings', "store_name") = {settings_tab.store_name}
             /\ ValuesOf(settings', "dark_mode") = {StrInt(settings_tab.dark_mode)}]_vars

\* C23 witness: the program runs again on a database with a customer on
\* file and settings that differ from the defaults
C23_Witness ==
    /\ running
    /\ customers # {}
    /\ ValuesOf(settings, "store_name") = {"Shop"}
    /\ ValuesOf(settings, "dark_mode") = {"1"}
    /\ settings_tab.store_name = "Shop"
    /\ cart = <<>> /\ msg = ""
    /\ gestures = 4

(***************************************************************************)
(* A further claim about the ledger, checked under SpecLedger.             *)
(***************************************************************************)
\* the ledger whose name is the text of the combo box
SelectedLedgers == {l.id : l \in {x \in ledgers : x.name = Strip(ledger_combo)}}

\* C30: ledger_cell_changed and delete_ledger_entry change or remove only
\* entries of the ledger selected in the combo box: an entries row that a
\* step changes or removes has the ledger_id of that ledger.
C30_OtherLedgersUntouched ==
    [][\A e \in ledger_entries :
          e \notin ledger_entries' => e.ledger_id \in SelectedLedgers]_vars

\* C30 witness: two ledgers with an entry each, one entry edited and the
\* entry of the other ledger as it was added
C30_Witness ==
    \E e, f \in ledger_entries :
       /\ e.ledger_id # f.ledger_id
       /\ e.bill_amount = Real(5)
       /\ f.bill_amount = Real(0) /\ f.particulars = ""

====
